---- MODULE Spec2Model ----
(***************************************************************************)
(* digest_32_le (src/src/bindings/digest.c): the 16-bit one's-complement   *)
(* checksum of a byte buffer, accumulated in two 64-bit lanes.             *)
(*                                                                         *)
(* A uint64_t is modelled as its eight bytes, least significant first      *)
(* (a tuple of 8 values in 0..255), so that additions keep their 64-bit    *)
(* width: a carry out of the eighth byte is a wrap modulo 2^64.  On the    *)
(* little-endian host the routine assumes, the load *u64 yields exactly    *)
(* the eight buffer bytes in this order.                                   *)
(***************************************************************************)
EXTENDS Integers, Sequences, FiniteSets, TLC

\* ------------------------------------------------------------------ bounds
\* longest buffer over ByteVals that is enumerated exhaustively
MaxLen == 8
\* longest buffer enumerated as a repeated byte pattern
MaxLongLen == 17
\* length of the repeated pattern of the long buffers
PatLen == 5
\* longest explicit remainder of a buffer that begins with a long run
MaxBigLen == 9

ByteVals == {0, 1, 255}
BigByteVals == {0, 255}
FoldByteVals == {0, 1, 255}

\* ------------------------------------------------------- 64-bit arithmetic
Zero64 == <<0, 0, 0, 0, 0, 0, 0, 0>>

\* a + b byte by byte with carry: the eight bytes of the sum modulo 2^64,
\* then the carry out of bit 63
AddCarry(a, b) ==
    LET t1 == a[1] + b[1]
        t2 == a[2] + b[2] + (t1 \div 256)
        t3 == a[3] + b[3] + (t2 \div 256)
        t4 == a[4] + b[4] + (t3 \div 256)
        t5 == a[5] + b[5] + (t4 \div 256)
        t6 == a[6] + b[6] + (t5 \div 256)
        t7 == a[7] + b[7] + (t6 \div 256)
        t8 == a[8] + b[8] + (t7 \div 256)
    IN  <<t1 % 256, t2 % 256, t3 % 256, t4 % 256,
          t5 % 256, t6 % 256, t7 % 256, t8 % 256, t8 \div 256>>

\* a + b on uint64_t: the sum modulo 2^64
Add64(a, b) == SubSeq(AddCarry(a, b), 1, 8)

\* the mathematical value of a + b exceeds 2^64 - 1
Wraps64(a, b) == AddCarry(a, b)[9] = 1

\* seeded fault: the mask 0xffffffffffff
Lo32_hi16(d) == <<d[1], d[2], d[3], d[4], d[5], d[6], 0, 0>>
\* seeded fault: the mask left out, sum += d
Lo32_full(d) == d
\* d & 0xffffffff
Lo32(d) == <<d[1], d[2], d[3], d[4], 0, 0, 0, 0>>

\* seeded fault: d >> 16
Hi32_shr16(d) == <<d[3], d[4], d[5], d[6], d[7], d[8], 0, 0>>
\* d >> 32
Hi32(d) == <<d[5], d[6], d[7], d[8], 0, 0, 0, 0>>

\* sum & 0xffff
And16(s) == <<s[1], s[2], 0, 0, 0, 0, 0, 0>>

\* sum >> 16
Shr16(s) == <<s[3], s[4], s[5], s[6], s[7], s[8], 0, 0>>

\* the condition of `while (sum>>16)`
NonZero(v) == v # Zero64

\* seeded fault: the carry dropped, sum & 0xffff
FoldStep_nocarry(s) == And16(s)
\* seeded fault: (sum & 0xffff) + (sum >> 8)
FoldStep_shr8(s) == Add64(And16(s), <<s[2], s[3], s[4], s[5], s[6], s[7], s[8], 0>>)
\* the body of the fold loop: (sum & 0xffff) + (sum>>16)
FoldStep(s) == Add64(And16(s), Shr16(s))

\* ~sum on uint64_t
Not64(s) ==
    <<255 - s[1], 255 - s[2], 255 - s[3], 255 - s[4],
      255 - s[5], 255 - s[6], 255 - s[7], 255 - s[8]>>

\* seeded fault: (uint16_t)sum
Complement16_nonot(s) == s[1] + 256 * s[2]
\* (uint16_t)~sum, the value returned
Complement16(s) == LET n == Not64(s) IN n[1] + 256 * n[2]

\* a < b on uint64_t
Less64(a, b) ==
    \E i \in 1..8 : a[i] < b[i] /\ \A j \in (i+1)..8 : a[j] = b[j]

Leq64(a, b) == a = b \/ Less64(a, b)

\* the uint64_t holding the small number n (n < 2^16)
U64(n) == <<n % 256, n \div 256, 0, 0, 0, 0, 0, 0>>

\* the exact product a * x for a byte x, modulo 2^64
MulByte(a, x) ==
    LET t1 == a[1] * x
        t2 == a[2] * x + (t1 \div 256)
        t3 == a[3] * x + (t2 \div 256)
        t4 == a[4] * x + (t3 \div 256)
        t5 == a[5] * x + (t4 \div 256)
        t6 == a[6] * x + (t5 \div 256)
        t7 == a[7] * x + (t6 \div 256)
        t8 == a[8] * x + (t7 \div 256)
    IN  <<t1 % 256, t2 % 256, t3 % 256, t4 % 256,
          t5 % 256, t6 % 256, t7 % 256, t8 % 256>>

\* a << (8 * j)
ShlBytes(a, j) == SubSeq(SubSeq(Zero64, 1, j) \o a, 1, 8)

RECURSIVE MulFrom(_, _, _)
MulFrom(k, a, i) ==
    IF i > 8 THEN Zero64
    ELSE Add64(ShlBytes(MulByte(a, k[i]), i - 1), MulFrom(k, a, i + 1))

\* k * a modulo 2^64: what k executions of `acc += a` leave in acc
Mul64(k, a) == MulFrom(k, a, 1)

\* ------------------------------------------------------------------- state
VARIABLES
    data,     \* the bytes at the address `data`, from offset 0
    done8,    \* 8-byte chunks consumed before offset 0 of data (uint64)
    len,      \* the parameter len, decremented by the loops
    u64,      \* byte offset of the pointer u64
    u16,      \* byte offset of the pointer u16
    sum,      \* uint64_t sum
    sum1,     \* uint64_t sum1
    pc,       \* position in the function
    rd,       \* the byte offsets read so far, in order
    ovf,      \* some addition into sum or sum1 has wrapped modulo 2^64
    n8,       \* executions of the 8-byte loop body
    n2,       \* executions of the 2-byte loop body
    n1,       \* executions of the odd-byte read
    nfold,    \* executions of the fold loop body
    result    \* the value returned (-1 before the return)

vars == <<data, done8, len, u64, u16, sum, sum1, pc, rd, ovf,
          n8, n2, n1, nfold, result>>

\* ------------------------------------------------------------------ inputs
\* every buffer over ByteVals of at most MaxLen bytes
ShortInputs == UNION {[1..k -> ByteVals] : k \in 0..MaxLen}

\* buffers of MaxLen+1 .. MaxLongLen bytes repeating a PatLen-byte pattern
LongInputs ==
    {[i \in 1..k |-> p[((i - 1) % PatLen) + 1]] :
        p \in [1..PatLen -> ByteVals], k \in (MaxLen + 1)..MaxLongLen}

\* the eight-byte scenario 0x00 .. 0x07
Scenario8 == <<0, 1, 2, 3, 4, 5, 6, 7>>

Inputs == ShortInputs \cup LongInputs \cup {Scenario8}

\* the bytes a k-byte load at offset off can yield: the buffer's bytes, and
\* any byte for an offset past the end of the buffer (undefined behaviour)
Load(off, k) ==
    IF off + k <= Len(data)
    THEN {SubSeq(data, off + 1, off + k)}
    ELSE {w \in [1..k -> ByteVals] :
            \A i \in 1..k : off + i <= Len(data) => w[i] = data[off + i]}

Offsets(off, k) == [i \in 1..k |-> off + i - 1]

\* ------------------------------------------------------------------- steps
\* entry: sum = 0, sum1 = 0, u64 = data; len is the caller's length
Init ==
    /\ data \in Inputs
    /\ done8 = Zero64
    /\ len = Len(data)
    /\ u64 = 0
    /\ u16 = 0
    /\ sum = Zero64
    /\ sum1 = Zero64
    /\ pc = "loop8"
    /\ rd = <<>>
    /\ ovf = FALSE
    /\ n8 = 0
    /\ n2 = 0
    /\ n1 = 0
    /\ nfold = 0
    /\ result = -1

\* seeded fault: while (len >= 16)
Loop8_ge16 ==
    /\ pc = "loop8"
    /\ len >= 16
    /\ \E d \in Load(u64, 8) :
         /\ sum' = Add64(sum, Lo32(d))
         /\ sum1' = Add64(sum1, Hi32(d))
         /\ ovf' = (ovf \/ Wraps64(sum, Lo32(d)) \/ Wraps64(sum1, Hi32(d)))
    /\ rd' = rd \o Offsets(u64, 8)
    /\ u64' = u64 + 8
    /\ len' = len - 8
    /\ n8' = n8 + 1
    /\ UNCHANGED <<data, done8, u16, pc, n2, n1, nfold, result>>

\* while (len >= 8) { d = *u64; sum += d&0xffffffff; sum1 += d>>32;
\*                    u64 += 1; len -= 8; }
Loop8 ==
    /\ pc = "loop8"
    /\ len >= 8
    /\ \E d \in Load(u64, 8) :
         /\ sum' = Add64(sum, Lo32(d))
         /\ sum1' = Add64(sum1, Hi32(d))
         /\ ovf' = (ovf \/ Wraps64(sum, Lo32(d)) \/ Wraps64(sum1, Hi32(d)))
    /\ rd' = rd \o Offsets(u64, 8)
    /\ u64' = u64 + 8
    /\ len' = len - 8
    /\ n8' = n8 + 1
    /\ UNCHANGED <<data, done8, u16, pc, n2, n1, nfold, result>>

\* loop exit; sum += sum1; u16 = (const uint16_t *)u64
Combine ==
    /\ pc = "loop8"
    /\ ~(len >= 8)
    /\ sum' = Add64(sum, sum1)
    /\ ovf' = (ovf \/ Wraps64(sum, sum1))
    /\ u16' = u64
    /\ pc' = "loop2"
    /\ UNCHANGED <<data, done8, len, u64, sum1, rd, n8, n2, n1, nfold, result>>

\* seeded fault: while (len >= 1)
Loop2_ge1 ==
    /\ pc = "loop2"
    /\ len >= 1
    /\ \E w \in Load(u16, 2) :
         /\ sum' = Add64(sum, <<w[1], w[2], 0, 0, 0, 0, 0, 0>>)
         /\ ovf' = (ovf \/ Wraps64(sum, <<w[1], w[2], 0, 0, 0, 0, 0, 0>>))
    /\ rd' = rd \o Offsets(u16, 2)
    /\ u16' = u16 + 2
    /\ len' = len - 2
    /\ n2' = n2 + 1
    /\ UNCHANGED <<data, done8, u64, sum1, pc, n8, n1, nfold, result>>

\* while (len >= 2) { sum += *u16; u16 += 1; len -= 2; }
Loop2 ==
    /\ pc = "loop2"
    /\ len >= 2
    /\ \E w \in Load(u16, 2) :
         /\ sum' = Add64(sum, <<w[1], w[2], 0, 0, 0, 0, 0, 0>>)
         /\ ovf' = (ovf \/ Wraps64(sum, <<w[1], w[2], 0, 0, 0, 0, 0, 0>>))
    /\ rd' = rd \o Offsets(u16, 2)
    /\ u16' = u16 + 2
    /\ len' = len - 2
    /\ n2' = n2 + 1
    /\ UNCHANGED <<data, done8, u64, sum1, pc, n8, n1, nfold, result>>

\* loop exit; if (len == 1) sum += *((const uint8_t *)u16);
OddByte ==
    /\ pc = "loop2"
    /\ ~(len >= 2)
    /\ len = 1
    /\ \E b \in Load(u16, 1) :
         /\ sum' = Add64(sum, <<b[1], 0, 0, 0, 0, 0, 0, 0>>)
         /\ ovf' = (ovf \/ Wraps64(sum, <<b[1], 0, 0, 0, 0, 0, 0, 0>>))
    /\ rd' = rd \o Offsets(u16, 1)
    /\ n1' = n1 + 1
    /\ pc' = "fold"
    /\ UNCHANGED <<data, done8, len, u64, u16, sum1, n8, n2, nfold, result>>

NoOddByte ==
    /\ pc = "loop2"
    /\ ~(len >= 2)
    /\ len # 1
    /\ pc' = "fold"
    /\ UNCHANGED <<data, done8, len, u64, u16, sum, sum1, rd, ovf,
                   n8, n2, n1, nfold, result>>

\* while (sum>>16) { sum = (sum & 0xffff) + (sum>>16); }
Fold ==
    /\ pc = "fold"
    /\ NonZero(Shr16(sum))
    /\ sum' = FoldStep(sum)
    /\ nfold' = nfold + 1
    /\ UNCHANGED <<data, done8, len, u64, u16, sum1, pc, rd, ovf,
                   n8, n2, n1, result>>

\* loop exit; CAMLreturn((uint16_t)~sum)
Return ==
    /\ pc = "fold"
    /\ ~NonZero(Shr16(sum))
    /\ result' = Complement16(sum)
    /\ pc' = "done"
    /\ UNCHANGED <<data, done8, len, u64, u16, sum, sum1, rd, ovf,
                   n8, n2, n1, nfold>>

Next ==
    \/ Loop8
    \/ Combine
    \/ Loop2
    \/ OddByte
    \/ NoOddByte
    \/ Fold
    \/ Return

Spec == Init /\ [][Next]_vars

\* the function is sequential code: a step that can be taken is taken
LiveSpec == Init /\ [][Next]_vars /\ WF_vars(Next)

\* ------------------------------------------------- the fold loop, any input
\* the fold loop entered with an arbitrary 64-bit accumulator
FoldInit ==
    /\ sum \in [1..8 -> FoldByteVals]
    /\ pc = "fold"
    /\ data = <<>>
    /\ done8 = Zero64
    /\ len = 0
    /\ u64 = 0
    /\ u16 = 0
    /\ sum1 = Zero64
    /\ rd = <<>>
    /\ ovf = FALSE
    /\ n8 = 0
    /\ n2 = 0
    /\ n1 = 0
    /\ nfold = 0
    /\ result = -1

FoldNext ==
    \/ Fold
    \/ Return

FoldSpec == FoldInit /\ [][FoldNext]_vars

\* ------------------------------------------------------- very long buffers
\* 2^31 - 1, 2^31, 2^32 - 1 and 2^32 as uint64_t
BigCounts ==
    { <<255, 255, 255, 127, 0, 0, 0, 0>>, <<0, 0, 0, 128, 0, 0, 0, 0>>,
      <<255, 255, 255, 255, 0, 0, 0, 0>>, <<0, 0, 0, 0, 1, 0, 0, 0>> }

\* the 8-byte chunk a long run repeats
BigFills ==
    { <<255, 255, 255, 255, 255, 255, 255, 255>>,
      <<255, 255, 255, 255, 0, 0, 0, 0>>,
      <<1, 0, 0, 0, 255, 255, 255, 255>> }

BigTails == UNION {[1..k -> BigByteVals] : k \in 0..MaxBigLen}

\* the head of the 8-byte loop after k iterations over a buffer that begins
\* with k copies of one chunk c: sum = k * (c & 0xffffffff) and
\* sum1 = k * (c >> 32), both below 2^64 for k <= 2^32; data holds the bytes
\* that follow the run and len their number
BigInit ==
    /\ done8 \in BigCounts
    /\ data \in BigTails
    /\ \E c \in BigFills :
         /\ sum = Mul64(done8, Lo32(c))
         /\ sum1 = Mul64(done8, Hi32(c))
    /\ len = Len(data)
    /\ u64 = 0
    /\ u16 = 0
    /\ pc = "loop8"
    /\ rd = <<>>
    /\ ovf = FALSE
    /\ n8 = 0
    /\ n2 = 0
    /\ n1 = 0
    /\ nfold = 0
    /\ result = -1

BigSpec == BigInit /\ [][Next]_vars

\* the number of 8-byte chunks of the whole buffer
Chunks == Add64(done8, U64(Len(data) \div 8))

\* ------------------------------------------- the routine as a pure function
Rest(b, k) == SubSeq(b, k + 1, Len(b))

\* the 8-byte loop and `sum += sum1`: <<sum, the bytes left over>>
RECURSIVE Lanes(_, _, _)
Lanes(b, s, s1) ==
    IF Len(b) >= 8
    THEN Lanes(Rest(b, 8), Add64(s, Lo32(SubSeq(b, 1, 8))),
               Add64(s1, Hi32(SubSeq(b, 1, 8))))
    ELSE <<Add64(s, s1), b>>

\* the 2-byte loop and the odd-byte read
RECURSIVE Tail16(_, _)
Tail16(b, s) ==
    IF Len(b) >= 2
    THEN Tail16(Rest(b, 2), Add64(s, <<b[1], b[2], 0, 0, 0, 0, 0, 0>>))
    ELSE IF Len(b) = 1 THEN Add64(s, <<b[1], 0, 0, 0, 0, 0, 0, 0>>) ELSE s

\* the value of sum when the fold loop is entered
PreFold(b) == LET l == Lanes(b, Zero64, Zero64) IN Tail16(l[2], l[1])

\* the fold loop
RECURSIVE FoldAll(_)
FoldAll(s) == IF NonZero(Shr16(s)) THEN FoldAll(FoldStep(s)) ELSE s

\* digest_32_le(b, Len(b))
Digest(b) == Complement16(FoldAll(PreFold(b)))

\* the state machine and the pure function are the same routine
StepsAgree ==
    /\ (pc = "fold" /\ nfold = 0 /\ done8 = Zero64) => sum = PreFold(data)
    /\ (pc = "done" /\ done8 = Zero64) => result = Digest(data)

\* ------------------------------------------------------------------ claims
\* the byte-wise 16-bit reference: the one's-complement sum, with end-around
\* carry after every addition, of the words b[2i] + 256*b[2i+1], the last
\* byte of an odd-length buffer padded with a zero high byte
RECURSIVE RefSum(_, _)
RefSum(b, acc) ==
    IF Len(b) = 0 THEN acc
    ELSE LET w == IF Len(b) = 1 THEN b[1] ELSE b[1] + 256 * b[2]
             t == acc + w
             r == IF t > 65535 THEN (t % 65536) + 1 ELSE t
         IN  RefSum(Rest(b, IF Len(b) = 1 THEN 1 ELSE 2), r)

\* C1: on return, the result equals (~S) & 0xFFFF for S the byte-wise
\* one's-complement sum of the buffer's little-endian 16-bit words.
C1_MatchesReference ==
    pc = "done" => result = 65535 - RefSum(data, 0)

C1_Witness ==
    /\ pc = "done"
    /\ Len(data) >= 8
    /\ Len(data) % 8 = 7
    /\ nfold >= 2
    /\ result = 65535 - RefSum(data, 0)

\* C2: on return the routine has read exactly the offsets 0 .. n-1 of the
\* n-byte buffer, each once, and at no time an offset >= n.
C2_ReadsExactlyBuffer ==
    /\ \A i \in 1..Len(rd) : rd[i] >= 0 /\ rd[i] < Len(data)
    /\ \A i, j \in 1..Len(rd) : rd[i] = rd[j] => i = j
    /\ pc = "done" => \A o \in 0..(Len(data) - 1) : \E i \in 1..Len(rd) : rd[i] = o

C2_Witness ==
    /\ pc = "done"
    /\ n8 >= 1
    /\ n2 >= 1
    /\ n1 = 1
    /\ Len(rd) = Len(data)

\* C3: the digest of a buffer of n zero bytes, n >= 0, is 0xFFFF.
C3_ZeroBuffer ==
    (pc = "done" /\ \A i \in 1..Len(data) : data[i] = 0) => result = 65535

C3_Witness ==
    /\ pc = "done"
    /\ Len(data) > 8
    /\ \A i \in 1..Len(data) : data[i] = 0
    /\ result = 65535

C3_WitnessEmpty ==
    pc = "done" /\ Len(data) = 0 /\ result = 65535 /\ nfold = 0

\* C4: the digest of an even number n >= 2 of 0xFF bytes is 0x0000.
C4_OnesBuffer ==
    (/\ pc = "done"
     /\ Len(data) >= 2
     /\ Len(data) % 2 = 0
     /\ \A i \in 1..Len(data) : data[i] = 255) => result = 0

C4_Witness ==
    /\ pc = "done"
    /\ Len(data) % 2 = 0
    /\ n8 >= 1
    /\ n2 >= 1
    /\ \A i \in 1..Len(data) : data[i] = 255
    /\ result = 0

\* C5 as stated: for the bytes 00 01 02 03 04 05 06 07 the lanes are
\* 0x03020100 and 0x07060504, sum is 0x0A080604 before folding, the fold
\* steps give 0x1000C and then 0x000D, and the digest is 0xFFF2.
C5_AsStated ==
    data = Scenario8 =>
        /\ (pc = "loop8" /\ n8 = 1) =>
              /\ sum = <<0, 1, 2, 3, 0, 0, 0, 0>>
              /\ sum1 = <<4, 5, 6, 7, 0, 0, 0, 0>>
        /\ (pc = "fold" /\ nfold = 0) => sum = <<4, 6, 8, 10, 0, 0, 0, 0>>
        /\ (pc = "fold" /\ nfold = 1) => sum = <<12, 0, 1, 0, 0, 0, 0, 0>>
        /\ (pc = "fold" /\ nfold = 2) => sum = <<13, 0, 0, 0, 0, 0, 0, 0>>
        /\ pc = "done" => (nfold = 2 /\ result = 65522)

\* C5 amended: for the bytes 00 01 02 03 04 05 06 07 the lanes are
\* 0x03020100 and 0x07060504, sum is 0x0A080604 before folding, the single
\* fold step gives 0x0604 + 0x0A08 = 0x100C, and the digest is 0xEFF3.
C5_Scenario8 ==
    data = Scenario8 =>
        /\ (pc = "loop8" /\ n8 = 1) =>
              /\ sum = <<0, 1, 2, 3, 0, 0, 0, 0>>
              /\ sum1 = <<4, 5, 6, 7, 0, 0, 0, 0>>
        /\ (pc = "fold" /\ nfold = 0) => sum = <<4, 6, 8, 10, 0, 0, 0, 0>>
        /\ (pc = "fold" /\ nfold = 1) => sum = <<12, 16, 0, 0, 0, 0, 0, 0>>
        /\ pc = "done" => (nfold = 1 /\ result = 61427)

C5_Witness ==
    data = Scenario8 /\ pc = "done" /\ nfold = 1 /\ result = 61427

\* C6: for every even offset k, folding the sum of the pre-fold accumulators
\* of data[0..k) and data[k..n) and complementing gives the digest of data.
C6_SplitAtEvenOffset ==
    pc = "done" =>
        \A k \in 0..Len(data) :
            k % 2 = 0 =>
                Complement16(FoldAll(Add64(PreFold(SubSeq(data, 1, k)),
                                           PreFold(Rest(data, k))))) = result

C6_Witness ==
    /\ pc = "done"
    /\ Len(data) >= 17
    /\ \E i \in 1..Len(data) : data[i] # 0
    /\ Complement16(FoldAll(Add64(PreFold(SubSeq(data, 1, 2)),
                                  PreFold(Rest(data, 2))))) = result
    /\ Complement16(FoldAll(Add64(PreFold(SubSeq(data, 1, 8)),
                                  PreFold(Rest(data, 8))))) = result

\* C7 as stated: the fold loop body runs at most twice, whatever 64-bit
\* value sum holds when the loop is entered.
C7_AsStated == nfold <= 2

\* C7 amended: the fold loop body runs at most four times for any 64-bit
\* value of sum, and at most twice when sum is below 2^32 on entry.
C7_FoldAtMostFour ==
    /\ nfold <= 4
    /\ (pc = "fold" /\ nfold = 0 /\ ~NonZero(Hi32(sum))) =>
           ~NonZero(Shr16(FoldStep(FoldStep(sum))))

C7_Witness ==
    pc = "done" /\ nfold = 4

\* C8 as stated: for a buffer of at most 2^32 eight-byte chunks no addition
\* into sum or sum1 wraps modulo 2^64.
C8_AsStated ==
    Leq64(Chunks, <<0, 0, 0, 0, 1, 0, 0, 0>>) => ~ovf

\* C8 amended: for a buffer of at most 2^31 eight-byte chunks (16 GiB) no
\* addition into sum or sum1 wraps modulo 2^64; the lane additions of the
\* 8-byte loop do not wrap for up to 2^32 chunks.
C8_NoWrapUpTo2Pow31 ==
    /\ Leq64(Chunks, <<0, 0, 0, 128, 0, 0, 0, 0>>) => ~ovf
    /\ (Leq64(Chunks, <<0, 0, 0, 0, 1, 0, 0, 0>>) /\ pc = "loop8") => ~ovf

C8_Witness ==
    /\ pc = "done"
    /\ Chunks = <<0, 0, 0, 128, 0, 0, 0, 0>>
    /\ n8 = 1
    /\ n1 = 1
    /\ \A i \in 1..Len(data) : data[i] = 255
    /\ Less64(<<0, 0, 0, 0, 255, 255, 255, 127>>, sum1)
    /\ ~ovf

\* C9: every call returns, after floor(len/8) executions of the 8-byte loop,
\* floor((len mod 8)/2) executions of the 2-byte loop and one odd-byte read
\* exactly when len is odd; every fold iteration strictly decreases sum.
C9_Terminates ==
    /\ <>(/\ pc = "done"
          /\ n8 = Len(data) \div 8
          /\ n2 = (Len(data) % 8) \div 2
          /\ n1 = Len(data) % 2)
    /\ [][(pc = "fold" /\ pc' = "fold") => Less64(sum', sum)]_vars

C9_Witness ==
    /\ pc = "done"
    /\ n8 = 2
    /\ n2 = 0
    /\ n1 = 1
    /\ nfold >= 2

\* C10: for an even-length buffer with digest c, the digest of the buffer
\* followed by the bytes c & 0xFF, c >> 8 is 0x0000.
C10_VerifyRoundTrip ==
    (pc = "done" /\ Len(data) % 2 = 0) =>
        Digest(data \o <<result % 256, result \div 256>>) = 0

C10_Witness ==
    /\ pc = "done"
    /\ Len(data) = 8
    /\ result \notin {0, 65535}
    /\ result % 256 \notin ByteVals
    /\ Digest(data \o <<result % 256, result \div 256>>) = 0

C10_WitnessZeroDigest ==
    /\ pc = "done"
    /\ Len(data) % 2 = 0
    /\ result = 0
    /\ Digest(data \o <<0, 0>>) = 0

====
